---- MODULE Spec2Model ----
(***************************************************************************)
(* Adaptive LLM invocation layer of suna:                                  *)
(*   backend/services/llm.py                     make_llm_api_call         *)
(*   backend/services/embedding_task_classifier.py  task classification    *)
(*                                                                         *)
(* Two specifications live in this module:                                 *)
(*   Spec / FairSpec  one invocation of make_llm_api_call against a        *)
(*                    transport whose outcome is chosen per attempt        *)
(*   ClassifySpec     module load of the classifier followed by calls of   *)
(*                    classify_task_with_embeddings                        *)
(***************************************************************************)
EXTENDS Integers, Sequences, FiniteSets, TLC

(***************************************************************************)
(* llm.py constants                                                        *)
(***************************************************************************)
MAX_RETRIES == 3

RATE_LIMIT_DELAY == 30

RETRY_DELAY == 5

VARIABLES
    pc,               \* position of make_llm_api_call: loop / calling / sleeping / done
    attempt,          \* loop variable of `for attempt in range(MAX_RETRIES)`
    calls,            \* number of litellm.acompletion calls issued
    observed,         \* transport outcomes seen so far, in order
    sleeps,           \* delays handed to asyncio.sleep, in order
    params_model,     \* params['model'] as a path: prefixes, then the base name
    last_error,       \* local variable last_error
    outcome,          \* how the invocation ended: none / response / LLMError / LLMRetryError / cancelled
    carried,          \* the error whose text the raised exception carries
    cancelled,        \* the caller cancelled the task
    ollama_provider   \* config.OLLAMA_PROVIDER.lower() == 'ollama'

engineVars == <<pc, attempt, calls, observed, sleeps, params_model, last_error,
                outcome, carried, cancelled, ollama_provider>>

(***************************************************************************)
(* embedding_task_classifier.py                                            *)
(*                                                                         *)
(* Numbers: a vector coordinate is an integer number of 1/Unit; a          *)
(* similarity is an integer number of hundredths, rounded down, or NaN;    *)
(* a confidence (similarity+1)/2 is an integer number of 1/200.  A vector  *)
(* is [dim, nz]: its length and its non-zero coordinates by 0-based index. *)
(***************************************************************************)
VARIABLES
    EMBEDDING_CACHE,  \* module global: text -> vector
    TASK_EMBEDDINGS,  \* module global: task type -> prototype vector
    local_backend,    \* the Ollama embeddings endpoint: ok / empty / down
    openai_key,       \* config.OPENAI_API_KEY is set
    hosted_up,        \* the OpenAI embeddings call succeeds
    changes,          \* number of backend availability changes so far
    cpc,              \* classifier position: load / idle / init / embed
    init_task,        \* index of the task type initialize_task_embeddings is at
    init_acc,         \* embeddings collected for that task type
    prompt,           \* argument of the running classify_task_with_embeddings
    prompt_embedding, \* local variable prompt_embedding of the last call
    result,           \* what the last classify_task_with_embeddings call did
    nclassify         \* number of classify_task_with_embeddings calls

classifyVars == <<EMBEDDING_CACHE, TASK_EMBEDDINGS, local_backend, openai_key,
                  hosted_up, changes, cpc, init_task, init_acc, prompt,
                  prompt_embedding, result, nclassify>>

(***************************************************************************)
(* Concurrent callers of classify_task_with_embeddings (threads)           *)
(***************************************************************************)
VARIABLES
    callers,          \* per caller: position, loop state and what it saw
    builds            \* per task type: how often a caller assigned its prototype

raceVars == <<callers, builds>>

(***************************************************************************)
(* get_model_for_task and the decision recorder (model_selection_logger)   *)
(***************************************************************************)
VARIABLES
    sel,              \* the running get_model_for_task call: position and locals
    recorder_loaded,  \* services.model_selection_logger is in sys.modules
    nselect           \* number of get_model_for_task calls

selectVars == <<sel, recorder_loaded, nselect>>

(***************************************************************************)
(* prepare_params and the caller's message list                            *)
(***************************************************************************)
VARIABLES
    config,           \* config.MODEL_TO_USE and the provider API keys that are set
    messages,         \* the caller's message list (the object passed to every call)
    before,           \* value of that list when the last prepare_params call began
    args,             \* arguments of the last prepare_params call
    params,           \* what the last prepare_params call returned or raised
    nprepare          \* number of prepare_params calls

prepVars == <<config, messages, before, args, params, nprepare>>

(***************************************************************************)
(* get_embedding and the cache file, called on their own                   *)
(***************************************************************************)
VARIABLES
    snapshot,         \* the cache file: whether it exists and the mapping in it
    last_embed,       \* the last get_embedding call and the last cache operation
    served,           \* text -> the vector a backend first produced for it
    nembed            \* number of cache operations so far

embedVars == <<snapshot, last_embed, served, nembed>>

(***************************************************************************)
(* lines 223-259 of classify_task_with_embeddings on given similarities    *)
(***************************************************************************)
VARIABLES
    similarities,     \* local variable similarities: task type -> similarity
    decided           \* the pair returned for them

decideVars == <<similarities, decided>>

extVars == <<raceVars, selectVars, prepVars, embedVars, decideVars>>

vars == <<engineVars, classifyVars, extVars>>


(***************************************************************************)
(* Transport outcomes.  An error is named by the exception class the      *)
(* except clauses of make_llm_api_call test for; ProviderMissing is a      *)
(* BadRequestError whose text contains 'LLM Provider NOT provided'.        *)
(***************************************************************************)
Success == "Success"

ErrorKinds == {"RateLimitError", "OpenAIError", "JSONDecodeError",
               "ProviderMissing", "BadRequestError", "Exception"}

TransportOutcomes == {Success} \cup ErrorKinds

NoError == [kind |-> "None", at |-> 0]

Err(kind, n) == [kind |-> kind, at |-> n]

(* handle_error: the delay slept for an error *)
HandleErrorDelay_AlwaysLong(kind) == RATE_LIMIT_DELAY

HandleErrorDelay_AlwaysShort(kind) == RETRY_DELAY

HandleErrorDelay(kind) ==
    IF kind = "RateLimitError" THEN RATE_LIMIT_DELAY ELSE RETRY_DELAY

(* which except clause of the try statement handles a raised exception;    *)
(* asyncio.CancelledError is a BaseException and matches none of them      *)
ExceptClause_RetryBadRequest(kind) ==
    CASE kind \in {"RateLimitError", "OpenAIError", "JSONDecodeError",
                   "BadRequestError", "Exception"} -> "retry"
      [] kind = "ProviderMissing" -> "bad_request"
      [] OTHER -> "propagate"

ExceptClause_CatchCancel(kind) ==
    CASE kind \in {"RateLimitError", "OpenAIError", "JSONDecodeError"} -> "retry"
      [] kind \in {"ProviderMissing", "BadRequestError"} -> "bad_request"
      [] OTHER -> "other"

ExceptClause(kind) ==
    CASE kind \in {"RateLimitError", "OpenAIError", "JSONDecodeError"} -> "retry"
      [] kind \in {"ProviderMissing", "BadRequestError"} -> "bad_request"
      [] kind = "Exception" -> "other"
      [] OTHER -> "propagate"

(* 'LLM Provider NOT provided' in str(e) *)
IsProviderMissing(kind) == kind = "ProviderMissing"

(* the prefix put in front of params['model'] by the correction *)
ProviderPrefix(isOllama) == IF isOllama THEN "ollama" ELSE "openai"

(* `continue` goes back to the for statement, which takes the next value   *)
(* of range(MAX_RETRIES)                                                   *)
ContinueAttempt_SameSlot(a) == a

ContinueAttempt(a) == a + 1

(* the for loop has another iteration *)
LoopHasNext(a) == a < MAX_RETRIES

(* what the code after the loop does *)
AfterLoop_ReturnNone(err) == [outcome |-> "None", carried |-> NoError]

AfterLoop(err) == [outcome |-> "LLMRetryError", carried |-> err]

(***************************************************************************)
(* make_llm_api_call                                                       *)
(***************************************************************************)
EngineInit ==
    /\ pc = "loop"
    /\ attempt = 0
    /\ calls = 0
    /\ observed = <<>>
    /\ sleeps = <<>>
    /\ params_model = <<"model">>
    /\ last_error = NoError
    /\ outcome = "none"
    /\ carried = NoError
    /\ cancelled = FALSE
    /\ ollama_provider \in BOOLEAN

(* top of the loop body: litellm.acompletion is awaited *)
StartAttempt ==
    /\ pc = "loop"
    /\ LoopHasNext(attempt)
    /\ pc' = "calling"
    /\ calls' = calls + 1
    /\ UNCHANGED <<attempt, observed, sleeps, params_model, last_error,
                   outcome, carried, cancelled, ollama_provider>>
    /\ UNCHANGED <<classifyVars, extVars>>

Raise(exc, err) ==
    /\ pc' = "done"
    /\ outcome' = exc
    /\ carried' = err

(* the awaited transport call returns or raises *)
TransportReturns(o) ==
    /\ pc = "calling"
    /\ observed' = Append(observed, o)
    /\ IF o = Success
       THEN /\ pc' = "done"
            /\ outcome' = "response"
            /\ UNCHANGED <<attempt, sleeps, params_model, last_error, carried>>
       ELSE CASE ExceptClause(o) = "retry" ->
                   /\ last_error' = Err(o, calls)
                   /\ sleeps' = Append(sleeps, HandleErrorDelay(o))
                   /\ pc' = "sleeping"
                   /\ UNCHANGED <<attempt, params_model, outcome, carried>>
              [] ExceptClause(o) = "bad_request" ->
                   IF IsProviderMissing(o)
                   THEN /\ params_model' =
                              <<ProviderPrefix(ollama_provider)>> \o params_model
                        /\ attempt' = ContinueAttempt(attempt)
                        /\ pc' = "loop"
                        /\ UNCHANGED <<sleeps, last_error, outcome, carried>>
                   ELSE /\ Raise("LLMError", Err(o, calls))
                        /\ UNCHANGED <<attempt, sleeps, params_model, last_error>>
              [] OTHER ->
                   /\ Raise("LLMError", Err(o, calls))
                   /\ UNCHANGED <<attempt, sleeps, params_model, last_error>>
    /\ UNCHANGED <<calls, cancelled, ollama_provider>>
    /\ UNCHANGED <<classifyVars, extVars>>

(* asyncio.sleep in handle_error completes; the loop takes its next value *)
Wake ==
    /\ pc = "sleeping"
    /\ attempt' = attempt + 1
    /\ pc' = "loop"
    /\ UNCHANGED <<calls, observed, sleeps, params_model, last_error,
                   outcome, carried, cancelled, ollama_provider>>
    /\ UNCHANGED <<classifyVars, extVars>>

(* range(MAX_RETRIES) is used up: the code after the loop *)
Exhausted ==
    /\ pc = "loop"
    /\ ~LoopHasNext(attempt)
    /\ pc' = "done"
    /\ outcome' = AfterLoop(last_error).outcome
    /\ carried' = AfterLoop(last_error).carried
    /\ UNCHANGED <<attempt, calls, observed, sleeps, params_model, last_error,
                   cancelled, ollama_provider>>
    /\ UNCHANGED <<classifyVars, extVars>>

(* the caller cancels the task while it is suspended in an await:          *)
(* CancelledError is raised at litellm.acompletion (inside the try) or at  *)
(* asyncio.sleep (inside the except body, where no clause applies)         *)
Cancel ==
    /\ pc \in {"calling", "sleeping"}
    /\ cancelled' = TRUE
    /\ pc' = "done"
    /\ IF pc = "calling" /\ ExceptClause("CancelledError") # "propagate"
       THEN /\ outcome' = "LLMError"
            /\ carried' = Err("CancelledError", calls)
       ELSE /\ outcome' = "cancelled"
            /\ UNCHANGED carried
    /\ UNCHANGED <<attempt, calls, observed, sleeps, params_model, last_error,
                   ollama_provider>>
    /\ UNCHANGED <<classifyVars, extVars>>

(***************************************************************************)
(* Vectors and numbers of the classifier                                   *)
(***************************************************************************)
Unit == 10

FallbackDim == 100

NativeDim == 1024

HostedDim == 1536

RECURSIVE SumFn(_)
SumFn(f) ==
    IF DOMAIN f = {} THEN 0
    ELSE LET k == CHOOSE k \in DOMAIN f : TRUE
         IN  f[k] + SumFn([i \in DOMAIN f \ {k} |-> f[i]])

(* a vector of length dim whose coordinates are f (zero where f is not      *)
(* defined)                                                                *)
MkVec(dim, f) == [dim |-> dim, nz |-> [i \in {k \in DOMAIN f : f[k] # 0} |-> f[i]]]

ZeroVec(dim) == MkVec(dim, [i \in {} |-> 0])

IsZeroVec(v) == DOMAIN v.nz = {}

At(v, i) == IF i \in DOMAIN v.nz THEN v.nz[i] ELSE 0

Dot(a, b) == SumFn([i \in DOMAIN a.nz \cap DOMAIN b.nz |-> a.nz[i] * b.nz[i]])

ISqrt(n) == CHOOSE r \in 0..n : r * r <= n /\ (r + 1) * (r + 1) > n

(* a float: NaN, or a number v *)
NaN == [nan |-> TRUE, v |-> 0]

Num(x) == [nan |-> FALSE, v |-> x]

(* Python's < on floats: every comparison with NaN is False *)
Lt(x, y) == ~x.nan /\ ~y.nan /\ x.v < y.v

(* hundredths of d / sqrt(p), rounded down, for p > 0 and d*d <= p *)
Ratio100(d, p) ==
    IF d >= 0
    THEN CHOOSE s \in 0..100 :
            /\ s * s * p <= 10000 * d * d
            /\ (s = 100 \/ (s + 1) * (s + 1) * p > 10000 * d * d)
    ELSE -(CHOOSE s \in 0..100 :
            /\ s * s * p >= 10000 * d * d
            /\ (s = 0 \/ (s - 1) * (s - 1) * p < 10000 * d * d))

(* cosine_similarity: np.dot raises ValueError when the lengths differ;    *)
(* a zero norm makes the quotient 0.0/0.0, which numpy evaluates to nan    *)
CosineSimilarity(a, b) ==
    IF a.dim # b.dim THEN [raised |-> TRUE, sim |-> NaN]
    ELSE LET p == Dot(a, a) * Dot(b, b)
         IN  IF p = 0 THEN [raised |-> FALSE, sim |-> NaN]
             ELSE [raised |-> FALSE, sim |-> Num(Ratio100(Dot(a, b), p))]

(***************************************************************************)
(* Task types, models and example prompts.  A text is the sequence of its  *)
(* lower-cased words, a word is a number.                                  *)
(***************************************************************************)
TaskOrder == <<"coding", "reasoning", "creative", "general">>

TaskTypes == {TaskOrder[i] : i \in 1..Len(TaskOrder)}

ExamplesPerTask == 2

(* TASK_EXAMPLES: the k-th task type has ExamplesPerTask examples *)
TASK_EXAMPLES(k) == [j \in 1..ExamplesPerTask |-> <<10 * k, 10 * k + j>>]

Prompts == {<<>>, <<10, 11>>, <<40, 41>>, <<10, 31>>, <<7>>}

(***************************************************************************)
(* get_embedding                                                           *)
(***************************************************************************)
(* hash(word) % 100 *)
HashBucket(w) == (w * 37) % FallbackDim

WordSet(text) == {text[i] : i \in 1..Len(text)}

(* the vector a backend of the given dimension computes for a text *)
BackendVector(dim, text) ==
    IF text = <<>> THEN MkVec(dim, [i \in {0} |-> Unit])
    ELSE MkVec(dim, [i \in {w % dim : w \in WordSet(text)} |->
                        IF i % 2 = 0 THEN Unit ELSE -Unit])

(* option 3: the i-th word (from 0, the first 100 words only) adds 1/(i+1) *)
(* to its bucket; the vector is then divided by its L2 norm                *)
BagCounts(text) ==
    LET used == {i \in 1..Len(text) : i <= 100}
    IN  [b \in {HashBucket(text[i]) : i \in used} |->
            SumFn([i \in {k \in used : HashBucket(text[k]) = b} |-> Unit \div i])]

BagOfWords(text) ==
    LET raw  == BagCounts(text)
        norm == ISqrt(SumFn([b \in DOMAIN raw |-> raw[b] * raw[b]]))
    IN  IF norm > 0
        THEN MkVec(FallbackDim, [b \in DOMAIN raw |-> (raw[b] * Unit) \div norm])
        ELSE MkVec(FallbackDim, raw)

(* get_embedding(text) against the cache and the backends as they are:     *)
(* [vec: the vector returned, store: whether it is put into the cache,     *)
(* source: the return statement taken].  A local answer with status 200    *)
(* and no "embedding" is returned as []; an exception of the local call    *)
(* is caught by the inner except and the next option is tried; an          *)
(* exception of the hosted call is caught by the outer except, which       *)
(* returns [0.0] * 100.                                                    *)
GetEmbedding(cache, text, local, key, hosted) ==
    IF text \in DOMAIN cache
    THEN [vec |-> cache[text], store |-> FALSE, source |-> "cache"]
    ELSE IF local = "ok"
         THEN [vec |-> BackendVector(NativeDim, text), store |-> TRUE, source |-> "local"]
    ELSE IF local = "empty"
         THEN [vec |-> ZeroVec(0), store |-> TRUE, source |-> "local"]
    ELSE IF key
         THEN IF hosted
              THEN [vec |-> BackendVector(HostedDim, text), store |-> TRUE,
                    source |-> "hosted"]
              ELSE [vec |-> ZeroVec(FallbackDim), store |-> FALSE, source |-> "failure"]
    ELSE [vec |-> BagOfWords(text), store |-> TRUE, source |-> "bag"]

CacheAfter(cache, text, e) ==
    IF e.store
    THEN [t \in DOMAIN cache \cup {text} |-> IF t = text THEN e.vec ELSE cache[t]]
    ELSE cache


(***************************************************************************)
(* sorted(similarities.items(), key=lambda x: x[1], reverse=True)          *)
(* list.sort on a short list: the list is reversed, the leading run is     *)
(* found, the other items are placed by binary insertion with <, and the   *)
(* list is reversed again.                                                 *)
(***************************************************************************)
Reverse(s) == [i \in 1..Len(s) |-> s[Len(s) + 1 - i]]

KeyLt(x, y) == Lt(x.sim, y.sim)

RECURSIVE DescRunEnd(_, _)
DescRunEnd(s, k) ==
    IF k < Len(s) /\ KeyLt(s[k + 1], s[k]) THEN DescRunEnd(s, k + 1) ELSE k

RECURSIVE AscRunEnd(_, _)
AscRunEnd(s, k) ==
    IF k < Len(s) /\ ~KeyLt(s[k + 1], s[k]) THEN AscRunEnd(s, k + 1) ELSE k

RECURSIVE BinarySearch(_, _, _, _)
BinarySearch(s, pivot, l, r) ==
    IF l >= r THEN l
    ELSE LET p == l + ((r - l) \div 2)
         IN  IF KeyLt(pivot, s[p]) THEN BinarySearch(s, pivot, l, p)
             ELSE BinarySearch(s, pivot, p + 1, r)

RECURSIVE BinarySort(_, _)
BinarySort(s, start) ==
    IF start > Len(s) THEN s
    ELSE LET pivot == s[start]
             l     == BinarySearch(s, pivot, 1, start)
             moved == [i \in 1..Len(s) |->
                          IF i < l THEN s[i]
                          ELSE IF i = l THEN pivot
                          ELSE IF i <= start THEN s[i - 1]
                          ELSE s[i]]
         IN  BinarySort(moved, start + 1)

ForwardSort(s) ==
    IF Len(s) < 2 THEN s
    ELSE IF KeyLt(s[2], s[1])
         THEN LET k == DescRunEnd(s, 2)
                  t == [i \in 1..Len(s) |-> IF i <= k THEN s[k + 1 - i] ELSE s[i]]
              IN  BinarySort(t, k + 1)
         ELSE BinarySort(s, AscRunEnd(s, 2) + 1)

SortedReverse(s) == Reverse(ForwardSort(Reverse(s)))

(***************************************************************************)
(* classify_task_with_embeddings, from the similarities on                 *)
(***************************************************************************)
Pct(p) == 2 * p

confidence_thresholds(task) ==
    CASE task = "coding"    -> Pct(65)
      [] task = "reasoning" -> Pct(60)
      [] task = "creative"  -> Pct(65)
      [] task = "general"   -> Pct(50)

(* (similarity + 1) / 2 in 1/200 *)
Confidence(sim) == IF sim.nan THEN NaN ELSE Num(sim.v + 100)

Minus(x, y) == IF x.nan \/ y.nan THEN NaN ELSE Num(x.v - y.v)

(* the similarities in dictionary order of TASK_EMBEDDINGS *)
PresentTasks(protos) == SelectSeq(TaskOrder, LAMBDA t : t \in DOMAIN protos)

Similarities(protos, emb) ==
    LET tasks == PresentTasks(protos)
    IN  [i \in 1..Len(tasks) |->
            [task   |-> tasks[i],
             raised |-> CosineSimilarity(emb, protos[tasks[i]]).raised,
             sim    |-> CosineSimilarity(emb, protos[tasks[i]]).sim]]

Raised(what) == [status |-> "raised", error |-> what, category |-> "none", confidence |-> NaN]

Returned(task, conf) == [status |-> "returned", error |-> "none", category |-> task, confidence |-> conf]

(* the decision without the reclassification of ambiguous prompts *)
Decide_NoAmbiguityRule(sorted) ==
    IF Lt(Confidence(sorted[1].sim), Num(Pct(55)))
    THEN Returned("general", Confidence(sorted[1].sim))
    ELSE Returned(sorted[1].task, Confidence(sorted[1].sim))

(* lines 223-259: from the sorted similarities to the returned pair *)
Decide(sorted) ==
    LET best  == sorted[1].task
        conf  == Confidence(sorted[1].sim)
        amb   == /\ Len(sorted) > 1
                 /\ Lt(conf, Num(confidence_thresholds(best)))
                 /\ Lt(Minus(conf, Confidence(sorted[2].sim)), Num(Pct(10)))
                 /\ sorted[2].task = "general"
        best2 == IF amb THEN "general" ELSE best
        conf2 == IF amb THEN Confidence(sorted[2].sim) ELSE conf
    IN  IF Lt(conf2, Num(Pct(55))) THEN Returned("general", conf2)
        ELSE Returned(best2, conf2)

(* lines 215-259 *)
ClassifyEmbedding(protos, emb) ==
    LET sims == Similarities(protos, emb)
    IN  IF \E i \in 1..Len(sims) : sims[i].raised THEN Raised("ValueError")
        ELSE IF Len(sims) = 0 THEN Raised("IndexError")
        ELSE Decide(SortedReverse(sims))

(* np.mean(embeddings, axis=0): the lengths must agree *)
Mean(embs) ==
    LET n   == Len(embs)
        dom == UNION {DOMAIN embs[j].nz : j \in 1..n}
    IN  MkVec(embs[1].dim,
              [i \in dom |-> SumFn([j \in 1..n |-> At(embs[j], i)]) \div n])

Ragged(embs) == \E j \in 1..Len(embs) : embs[j].dim # embs[1].dim


(***************************************************************************)
(* The classifier as a process: module load runs                           *)
(* initialize_task_embeddings inside try/except; afterwards callers run    *)
(* classify_task_with_embeddings one at a time while the embedding         *)
(* backends come and go.                                                   *)
(***************************************************************************)
MaxClassifyCalls == 2

MaxBackendChanges == 2

EmptyMap == [t \in {} |-> 0]

NoResult == [status |-> "none", error |-> "none", category |-> "none", confidence |-> NaN]

ClassifyStart ==
    /\ EMBEDDING_CACHE = EmptyMap
    /\ TASK_EMBEDDINGS = EmptyMap
    /\ local_backend \in {"ok", "empty", "down"}
    /\ openai_key \in BOOLEAN
    /\ hosted_up \in BOOLEAN
    /\ (~openai_key => ~hosted_up)
    /\ changes = 0
    /\ cpc = "load"
    /\ init_task = 1
    /\ init_acc = <<>>
    /\ prompt = <<>>
    /\ prompt_embedding = ZeroVec(0)
    /\ result = NoResult
    /\ nclassify = 0

(* the classifier is not in use *)
ClassifyIdle ==
    /\ EMBEDDING_CACHE = EmptyMap
    /\ TASK_EMBEDDINGS = EmptyMap
    /\ local_backend = "down"
    /\ openai_key = FALSE
    /\ hosted_up = FALSE
    /\ changes = 0
    /\ cpc = "idle"
    /\ init_task = 1
    /\ init_acc = <<>>
    /\ prompt = <<>>
    /\ prompt_embedding = ZeroVec(0)
    /\ result = NoResult
    /\ nclassify = 0

(* make_llm_api_call is not in use *)
EngineIdle ==
    /\ EngineInit
    /\ ollama_provider = FALSE

(* initialize_task_embeddings: one get_embedding(example); after the last  *)
(* example of a task type the average becomes its prototype.  np.mean      *)
(* raises on embeddings of different lengths: at module load the exception *)
(* is caught and logged, inside classify_task_with_embeddings it leaves    *)
(* the call.                                                               *)
InitEmbed ==
    /\ cpc \in {"load", "init"}
    /\ LET text == TASK_EXAMPLES(init_task)[Len(init_acc) + 1]
           e    == GetEmbedding(EMBEDDING_CACHE, text, local_backend, openai_key, hosted_up)
           acc  == Append(init_acc, e.vec)
           task == TaskOrder[init_task]
       IN  /\ EMBEDDING_CACHE' = CacheAfter(EMBEDDING_CACHE, text, e)
           /\ IF Len(acc) < ExamplesPerTask
              THEN /\ init_acc' = acc
                   /\ UNCHANGED <<TASK_EMBEDDINGS, cpc, init_task, result>>
              ELSE IF Ragged(acc)
              THEN /\ init_acc' = <<>>
                   /\ init_task' = 1
                   /\ cpc' = "idle"
                   /\ result' = IF cpc = "init" THEN Raised("ValueError") ELSE result
                   /\ UNCHANGED TASK_EMBEDDINGS
              ELSE /\ TASK_EMBEDDINGS' =
                         [t \in DOMAIN TASK_EMBEDDINGS \cup {task} |->
                             IF t = task THEN Mean(acc) ELSE TASK_EMBEDDINGS[t]]
                   /\ init_acc' = <<>>
                   /\ IF init_task < Len(TaskOrder)
                      THEN /\ init_task' = init_task + 1
                           /\ UNCHANGED cpc
                      ELSE /\ init_task' = 1
                           /\ cpc' = IF cpc = "load" THEN "idle" ELSE "embed"
                   /\ UNCHANGED result
    /\ UNCHANGED <<local_backend, openai_key, hosted_up, changes, prompt,
                   prompt_embedding, nclassify>>
    /\ UNCHANGED <<engineVars, extVars>>

(* classify_task_with_embeddings(p) is called: lines 208-210 *)
ClassifyCall(p) ==
    /\ cpc = "idle"
    /\ nclassify < MaxClassifyCalls
    /\ nclassify' = nclassify + 1
    /\ prompt' = p
    /\ result' = NoResult
    /\ cpc' = IF DOMAIN TASK_EMBEDDINGS = {} THEN "init" ELSE "embed"
    /\ UNCHANGED <<EMBEDDING_CACHE, TASK_EMBEDDINGS, local_backend, openai_key,
                   hosted_up, changes, init_task, init_acc, prompt_embedding>>
    /\ UNCHANGED <<engineVars, extVars>>

(* lines 212-259: the prompt is embedded and classified *)
ClassifyEmbed ==
    /\ cpc = "embed"
    /\ LET e == GetEmbedding(EMBEDDING_CACHE, prompt, local_backend, openai_key, hosted_up)
       IN  /\ EMBEDDING_CACHE' = CacheAfter(EMBEDDING_CACHE, prompt, e)
           /\ prompt_embedding' = e.vec
           /\ result' = ClassifyEmbedding(TASK_EMBEDDINGS, e.vec)
    /\ cpc' = "idle"
    /\ UNCHANGED <<TASK_EMBEDDINGS, local_backend, openai_key, hosted_up, changes,
                   init_task, init_acc, prompt, nclassify>>
    /\ UNCHANGED <<engineVars, extVars>>

(* an embedding backend becomes available or unavailable *)
BackendChange ==
    /\ changes < MaxBackendChanges
    /\ changes' = changes + 1
    /\ \E l \in {"ok", "empty", "down"}, h \in BOOLEAN :
          /\ (~openai_key => ~h)
          /\ <<l, h>> # <<local_backend, hosted_up>>
          /\ local_backend' = l
          /\ hosted_up' = h
    /\ UNCHANGED <<EMBEDDING_CACHE, TASK_EMBEDDINGS, openai_key, cpc, init_task,
                   init_acc, prompt, prompt_embedding, result, nclassify>>
    /\ UNCHANGED <<engineVars, extVars>>

ClassifyNext ==
    \/ InitEmbed
    \/ \E p \in Prompts : ClassifyCall(p)
    \/ ClassifyEmbed
    \/ BackendChange



(***************************************************************************)
(* Several callers in classify_task_with_embeddings at once.  The module   *)
(* has no lock: a caller tests TASK_EMBEDDINGS (lines 209, 185), runs the  *)
(* loop of initialize_task_embeddings if it was empty, then embeds its     *)
(* prompt and reads TASK_EMBEDDINGS (line 217).  Callers can interleave at *)
(* every get_embedding, which waits for the network.                       *)
(***************************************************************************)
NumCallers == 2

Callers == 1..NumCallers

NewCaller == [pc |-> "start", prompt |-> <<>>, task |-> 1, acc |-> <<>>,
              seen |-> -1, racing |-> FALSE, status |-> "none"]

RaceIdle ==
    /\ callers = [t \in Callers |-> NewCaller]
    /\ builds = [k \in TaskTypes |-> 0]

(* lines 208-210 and 184-186: the emptiness test *)
SkipsInit(protos) == DOMAIN protos # {}

CallerStart(t, p) ==
    /\ cpc = "idle"
    /\ callers[t].pc = "start"
    /\ callers' = [callers EXCEPT ![t].prompt = p,
                                  ![t].pc = IF SkipsInit(TASK_EMBEDDINGS)
                                            THEN "embed" ELSE "init"]
    /\ UNCHANGED <<builds, classifyVars, engineVars, selectVars, prepVars, embedVars, decideVars>>

(* lines 188-196 in a caller: one get_embedding(example), and the          *)
(* assignment of the prototype after the last example of a task type       *)
CallerInitEmbed(t) ==
    /\ callers[t].pc = "init"
    /\ LET c    == callers[t]
           text == TASK_EXAMPLES(c.task)[Len(c.acc) + 1]
           e    == GetEmbedding(EMBEDDING_CACHE, text, local_backend, openai_key, hosted_up)
           acc  == Append(c.acc, e.vec)
           task == TaskOrder[c.task]
       IN  /\ EMBEDDING_CACHE' = CacheAfter(EMBEDDING_CACHE, text, e)
           /\ IF Len(acc) < ExamplesPerTask
              THEN /\ callers' = [callers EXCEPT ![t].acc = acc]
                   /\ UNCHANGED <<TASK_EMBEDDINGS, builds>>
              ELSE IF Ragged(acc)
              THEN /\ callers' = [callers EXCEPT ![t].acc = <<>>,
                                                ![t].pc = "done",
                                                ![t].status = "raised"]
                   /\ UNCHANGED <<TASK_EMBEDDINGS, builds>>
              ELSE /\ TASK_EMBEDDINGS' =
                         [k \in DOMAIN TASK_EMBEDDINGS \cup {task} |->
                             IF k = task THEN Mean(acc) ELSE TASK_EMBEDDINGS[k]]
                   /\ builds' = [builds EXCEPT ![task] = @ + 1]
                   /\ callers' = [callers EXCEPT
                                    ![t].acc = <<>>,
                                    ![t].task = IF c.task < Len(TaskOrder) THEN c.task + 1 ELSE 1,
                                    ![t].pc = IF c.task < Len(TaskOrder) THEN "init" ELSE "embed"]
    /\ UNCHANGED <<local_backend, openai_key, hosted_up, changes, cpc, init_task,
                   init_acc, prompt, prompt_embedding, result, nclassify>>
    /\ UNCHANGED <<engineVars, selectVars, prepVars, embedVars, decideVars>>

(* lines 212-259 in a caller *)
CallerEmbed(t) ==
    /\ callers[t].pc = "embed"
    /\ LET c == callers[t]
           e == GetEmbedding(EMBEDDING_CACHE, c.prompt, local_backend, openai_key, hosted_up)
       IN  /\ EMBEDDING_CACHE' = CacheAfter(EMBEDDING_CACHE, c.prompt, e)
           /\ callers' = [callers EXCEPT
                            ![t].pc = "done",
                            ![t].seen = Cardinality(DOMAIN TASK_EMBEDDINGS),
                            ![t].racing = \E u \in Callers \ {t} : callers[u].pc = "init",
                            ![t].status = ClassifyEmbedding(TASK_EMBEDDINGS, e.vec).status]
    /\ UNCHANGED <<TASK_EMBEDDINGS, builds, local_backend, openai_key, hosted_up,
                   changes, cpc, init_task, init_acc, prompt, prompt_embedding,
                   result, nclassify>>
    /\ UNCHANGED <<engineVars, selectVars, prepVars, embedVars, decideVars>>

(***************************************************************************)
(* get_model_for_task.  A prompt is a sequence of characters.  The         *)
(* classification is an input of the call: any pair the classifier can     *)
(* return, or its exception.  The record keeps the fields of log_data and  *)
(* of the database row that depend on the call's arguments, except the     *)
(* confidence and the timestamp.                                           *)
(***************************************************************************)
TASK_MODELS == [coding    |-> "qwen2.5-coder:32b-instruct-q8_0",
                reasoning |-> "mixtral:8x22b-instruct-v0.1-q4_K_M",
                creative  |-> "qwen3:8b",
                general   |-> "qwen3:32b"]

CodingTerms == {<<"c","o","d","e">>, <<"f","u","n","c","t","i","o","n">>,
                <<"p","r","o","g","r","a","m","m","i","n","g">>,
                <<"d","e","b","u","g">>, <<"a","l","g","o","r","i","t","h","m">>,
                <<"c","l","a","s","s">>, <<"m","e","t","h","o","d">>,
                <<"v","a","r","i","a","b","l","e">>, <<"c","o","m","p","i","l","e">>,
                <<"s","y","n","t","a","x">>, <<"a","p","i">>}

ReasoningTerms == {<<"a","n","a","l","y","z","e">>, <<"e","v","a","l","u","a","t","e">>,
                   <<"c","o","m","p","a","r","e">>, <<"c","o","n","t","r","a","s","t">>,
                   <<"i","m","p","l","i","c","a","t","i","o","n","s">>,
                   <<"r","e","a","s","o","n","i","n","g">>, <<"l","o","g","i","c">>,
                   <<"a","r","g","u","m","e","n","t">>, <<"d","e","b","a","t","e">>,
                   <<"p","h","i","l","o","s","o","p","h","y">>}

LongPromptWords == 100

SnippetLen == 50

UpperCase == <<"A","B","C","D","E","F","G","H","I","J","K","L","M",
               "N","O","P","Q","R","S","T","U","V","W","X","Y","Z">>

LowerCase == <<"a","b","c","d","e","f","g","h","i","j","k","l","m",
               "n","o","p","q","r","s","t","u","v","w","x","y","z">>

(* str.lower() *)
Lower(text) ==
    [i \in 1..Len(text) |->
        IF \E j \in 1..Len(UpperCase) : UpperCase[j] = text[i]
        THEN LowerCase[CHOOSE j \in 1..Len(UpperCase) : UpperCase[j] = text[i]]
        ELSE text[i]]

(* term in text *)
Contains(term, text) ==
    \E i \in 1..(Len(text) - Len(term) + 1) : SubSeq(text, i, i + Len(term) - 1) = term

(* len(prompt.split()) *)
WordCount(text) ==
    LET IsSpace(c) == c \in {" ", "\n", "\t"}
    IN  Cardinality({i \in 1..Len(text) :
                        ~IsSpace(text[i]) /\ (i = 1 \/ IsSpace(text[i - 1]))})

(* prompt[:50] + "..." if len(prompt) > 50 else prompt *)
Truncate_WholePrompt(text) == text

Truncate(text) ==
    IF Len(text) > SnippetLen THEN SubSeq(text, 1, SnippetLen) \o <<".", ".", ".">> ELSE text

Choice(model, reason) == [model |-> model, override_reason |-> reason]

(* lines 282-310: the model of the task type and the three override rules *)
SelectModel_LengthFirst(text, task_type) ==
    IF WordCount(text) > LongPromptWords /\ task_type # "reasoning"
    THEN Choice(TASK_MODELS["reasoning"], "long_complex_prompt")
    ELSE IF task_type # "coding" /\ \E term \in CodingTerms : Contains(term, Lower(text))
    THEN Choice(TASK_MODELS["coding"], "coding_keywords_detected")
    ELSE IF task_type # "reasoning" /\ \E term \in ReasoningTerms : Contains(term, Lower(text))
    THEN Choice(TASK_MODELS["reasoning"], "reasoning_terms_detected")
    ELSE Choice(TASK_MODELS[task_type], "None")

SelectModel_NoReasoningRule(text, task_type) ==
    IF task_type # "coding" /\ \E term \in CodingTerms : Contains(term, Lower(text))
    THEN Choice(TASK_MODELS["coding"], "coding_keywords_detected")
    ELSE IF WordCount(text) > LongPromptWords /\ task_type # "reasoning"
    THEN Choice(TASK_MODELS["reasoning"], "long_complex_prompt")
    ELSE Choice(TASK_MODELS[task_type], "None")

SelectModel_TermsBeforeLength(text, task_type) ==
    IF task_type # "coding" /\ \E term \in CodingTerms : Contains(term, Lower(text))
    THEN Choice(TASK_MODELS["coding"], "coding_keywords_detected")
    ELSE IF task_type # "reasoning" /\ \E term \in ReasoningTerms : Contains(term, Lower(text))
    THEN Choice(TASK_MODELS["reasoning"], "reasoning_terms_detected")
    ELSE IF WordCount(text) > LongPromptWords /\ task_type # "reasoning"
    THEN Choice(TASK_MODELS["reasoning"], "long_complex_prompt")
    ELSE Choice(TASK_MODELS[task_type], "None")

SelectModel(text, task_type) ==
    IF task_type # "coding" /\ \E term \in CodingTerms : Contains(term, Lower(text))
    THEN Choice(TASK_MODELS["coding"], "coding_keywords_detected")
    ELSE IF WordCount(text) > LongPromptWords /\ task_type # "reasoning"
    THEN Choice(TASK_MODELS["reasoning"], "long_complex_prompt")
    ELSE IF task_type # "reasoning" /\ \E term \in ReasoningTerms : Contains(term, Lower(text))
    THEN Choice(TASK_MODELS["reasoning"], "reasoning_terms_detected")
    ELSE Choice(TASK_MODELS[task_type], "None")

(* the prompts tried: a phrase followed by n more words " x" *)
Filler(n) == [i \in 1..(2 * n) |-> IF i % 2 = 1 THEN " " ELSE "x"]

SelectPrompts ==
    {ph \o Filler(n) :
        ph \in {<<>>,
                <<"D","e","b","u","g"," ","t","h","i","s">>,
                <<"a"," ","c","l","a","s","s","i","c">>,
                <<"a","n","a","l","y","z","e"," ","i","t">>,
                <<"C","o","m","p","a","r","e"," ","A","P","I","s">>,
                <<"w","r","i","t","e"," ","a"," ","p","o","e","m">>},
        n \in {0, 20, 21, 98, 99}}

Classifications ==
    {Returned(k, c) : k \in TaskTypes, c \in {Num(Pct(52)), Num(Pct(100)), NaN}}
       \cup {Raised("ValueError")}

MaxSelectCalls == 2

NoCall == [pc |-> "idle", prompt |-> <<>>, task_type |-> "none", confidence |-> NaN,
           model |-> "none", override_reason |-> "None", dummy |-> FALSE,
           log_record |-> <<>>, db_row |-> <<>>, outcome |-> "none", raised_by |-> "none"]

SelectIdle ==
    /\ sel = NoCall
    /\ recorder_loaded = FALSE
    /\ nselect = 0

(* line 261: a call starts *)
GetModelForTask(p) ==
    /\ sel.pc \in {"idle", "done"}
    /\ nselect < MaxSelectCalls
    /\ nselect' = nselect + 1
    /\ sel' = [NoCall EXCEPT !.pc = "import", !.prompt = p]
    /\ UNCHANGED <<recorder_loaded, engineVars, classifyVars, raceVars, prepVars, embedVars, decideVars>>

(* lines 272-277: the import of services.model_selection_logger runs the   *)
(* module (its imports, os.makedirs, logging.FileHandler) unless it is     *)
(* loaded already; only ImportError is caught                              *)
ImportRecorder(o) ==
    /\ sel.pc = "import"
    /\ recorder_loaded => o = "ok"
    /\ recorder_loaded' = (o = "ok")
    /\ sel' = IF o = "ok" THEN [sel EXCEPT !.pc = "classify"]
              ELSE IF o = "ImportError" THEN [sel EXCEPT !.pc = "classify", !.dummy = TRUE]
              ELSE [sel EXCEPT !.pc = "done", !.outcome = "raised", !.raised_by = "recorder"]
    /\ UNCHANGED <<nselect, engineVars, classifyVars, raceVars, prepVars, embedVars, decideVars>>

(* lines 279-312: classify, choose; then the dummy recorder returns at once *)
ClassifyAndSelect(c) ==
    /\ sel.pc = "classify"
    /\ sel' = IF c.status = "raised"
              THEN [sel EXCEPT !.pc = "done", !.outcome = "raised", !.raised_by = "classifier"]
              ELSE LET ch == SelectModel(sel.prompt, c.category)
                       s1 == [sel EXCEPT !.task_type = c.category,
                                         !.confidence = c.confidence,
                                         !.model = ch.model,
                                         !.override_reason = ch.override_reason]
                   IN  IF sel.dummy
                       THEN [s1 EXCEPT !.pc = "done", !.outcome = "returned"]
                       ELSE [s1 EXCEPT !.pc = "record"]
    /\ UNCHANGED <<recorder_loaded, nselect, engineVars, classifyVars, raceVars, prepVars, embedVars, decideVars>>

(* log_model_selection, lines 79-100: the file record (logging swallows a  *)
(* handler's error), then loop.run_until_complete, which raises            *)
(* RuntimeError when the calling thread is running an event loop; the      *)
(* except clause at 102 catches it and the call returns                    *)
LogModelSelection(file_ok, in_loop) ==
    /\ sel.pc = "record"
    /\ LET rec == [prompt_preview |-> Truncate(sel.prompt),
                   prompt_length |-> Len(sel.prompt),
                   task_type |-> sel.task_type,
                   selected_model |-> sel.model,
                   override_reason |-> sel.override_reason]
           s1 == IF file_ok THEN [sel EXCEPT !.log_record = <<rec>>] ELSE sel
       IN  sel' = IF in_loop THEN [s1 EXCEPT !.pc = "done", !.outcome = "returned"]
                  ELSE [s1 EXCEPT !.pc = "db"]
    /\ UNCHANGED <<recorder_loaded, nselect, engineVars, classifyVars, raceVars, prepVars, embedVars, decideVars>>

(* log_model_selection_to_db, lines 45-65, ends: the row is inserted or an *)
(* exception is caught and logged; run_until_complete returns, then        *)
(* log_model_selection and get_model_for_task (line 323) return            *)
DbCompletes(inserted) ==
    /\ sel.pc = "db"
    /\ LET row == [prompt_snippet |-> Truncate(sel.prompt),
                   prompt_length |-> Len(sel.prompt),
                   task_type |-> sel.task_type,
                   selected_model |-> sel.model,
                   override_reason |-> sel.override_reason]
       IN  sel' = [sel EXCEPT !.pc = "done", !.outcome = "returned",
                              !.db_row = IF inserted THEN <<row>> ELSE <<>>]
    /\ UNCHANGED <<recorder_loaded, nselect, engineVars, classifyVars, raceVars, prepVars, embedVars, decideVars>>

(***************************************************************************)
(* prepare_params.  A model name and a message text are sequences of       *)
(* characters; a task instruction of enhance_prompt_for_task is one        *)
(* element standing for the whole literal.  A content is a string or a     *)
(* list of blocks; the text of a block is the content it was made from.    *)
(* Arguments that prepare_params only copies into params (max_tokens,      *)
(* tools, api_key, api_base, model_id, response_format, top_p, stream) and *)
(* the extra_headers they lead to are left out; reasoning_effort is left   *)
(* at its default.                                                         *)
(***************************************************************************)
Str(t) == [kind |-> "str", text |-> t, blocks |-> <<>>]

Blocks(bs) == [kind |-> "list", text |-> <<>>, blocks |-> bs]

TextBlock(t, hinted) == [type |-> "text", text |-> Str(t), cache_control |-> hinted]

Msg(role, content) == [role |-> role, content |-> content]

(* lines 190-195 *)
available_models ==
    [coding    |-> <<"q","w","e","n","2",".","5","-","c","o","d","e","r",":","3","2","b","-","i","n","s","t","r","u","c","t","-","q","8","_","0">>,
     reasoning |-> <<"m","i","x","t","r","a","l",":","8","x","2","2","b","-","i","n","s","t","r","u","c","t","-","v","0",".","1","-","q","4","_","K","_","M">>,
     creative  |-> <<"l","l","a","m","a","3",".","1",":","8","b">>,
     chat      |-> <<"q","w","e","n","2",".","5",":","3","2","b","-","i","n","s","t","r","u","c","t","-","q","4","_","K","_","M">>]

Indices(msgs, role) == {i \in 1..Len(msgs) : msgs[i].role = role}

Last(S) == IF S = {} THEN 0 ELSE CHOOSE i \in S : \A j \in S : j <= i

(* select_best_model_for_task, lines 175-218: the model of the task type,  *)
(* for "auto" the type found in the last user message, whose content must  *)
(* be a string (content.lower())                                           *)
SelectBestModelForTask(task_type, msgs, default_model) ==
    LET u    == Last(Indices(msgs, "user"))
        c    == IF u = 0 THEN Str(<<>>) ELSE msgs[u].content
        has(kws) == \E kw \in kws : Contains(kw, Lower(c.text))
        auto == IF has({<<"c","o","d","e">>, <<"f","u","n","c","t","i","o","n">>, <<"p","r","o","g","r","a","m","m","i","n","g">>, <<"s","c","r","i","p","t">>, <<"a","l","g","o","r","i","t","h","m">>, <<"d","e","b","u","g">>})
                THEN "coding"
                ELSE IF has({<<"e","x","p","l","a","i","n">>, <<"w","h","y">>, <<"h","o","w">>, <<"a","n","a","l","y","z","e">>, <<"c","o","m","p","a","r","e">>, <<"e","v","a","l","u","a","t","e">>})
                THEN "reasoning"
                ELSE IF has({<<"s","t","o","r","y">>, <<"c","r","e","a","t","i","v","e">>, <<"i","m","a","g","i","n","e">>, <<"d","e","s","i","g","n">>, <<"g","e","n","e","r","a","t","e">>})
                THEN "creative"
                ELSE "chat"
    IN  IF task_type = "auto" /\ msgs # <<>> /\ c.kind # "str"
        THEN [raised |-> "AttributeError", model |-> default_model]
        ELSE LET t == IF task_type = "auto" /\ msgs # <<>> THEN auto ELSE task_type
             IN  [raised |-> "none",
                  model |-> IF t \in DOMAIN available_models
                            THEN available_models[t] ELSE default_model]

(* optimize_temperature, lines 150-173; temperatures in hundredths *)
OptimizeTemperature_AlwaysTable(task_type, user_temperature) ==
    LET task_temperatures == [coding |-> 10, reasoning |-> 20, creative |-> 80, chat |-> 50]
    IN  IF task_type \in DOMAIN task_temperatures
        THEN task_temperatures[task_type] ELSE user_temperature

OptimizeTemperature_NoTable(task_type, user_temperature) == user_temperature

OptimizeTemperature(task_type, user_temperature) ==
    LET task_temperatures == [coding |-> 10, reasoning |-> 20, creative |-> 80, chat |-> 50]
    IN  IF user_temperature # 0 THEN user_temperature
        ELSE IF task_type \in DOMAIN task_temperatures
        THEN task_temperatures[task_type] ELSE 0

TaskInstruction(task_type) == <<"<instructions:" \o task_type \o ">">>

(* enhance_prompt_for_task, lines 83-148.  messages.copy() copies the list *)
(* and not the dictionaries in it: caller is the caller's list afterwards, *)
(* out the list returned.                                                  *)
EnhancePromptForTask(msgs, task_type) ==
    LET sys == Indices(msgs, "system")
        i   == CHOOSE k \in sys : \A j \in sys : k <= j
        cur == msgs[i].content.text
        dot == cur # <<>> /\ (cur[Len(cur)] = "." \/ <<cur[Len(cur)]>> = TaskInstruction("coding")
                              \/ <<cur[Len(cur)]>> = TaskInstruction("reasoning")
                              \/ <<cur[Len(cur)]>> = TaskInstruction("creative")
                              \/ <<cur[Len(cur)]>> = TaskInstruction("chat"))
        new == cur \o (IF dot THEN <<" ">> ELSE <<".", " ">>) \o TaskInstruction(task_type)
        mut == [msgs EXCEPT ![i].content = Str(new)]
    IN  IF msgs = <<>> \/ task_type \notin {"coding", "reasoning", "creative", "chat"}
        THEN [raised |-> "none", caller |-> msgs, out |-> msgs, inserted |-> FALSE]
        ELSE IF sys = {}
        THEN [raised |-> "none", caller |-> msgs,
              out |-> <<Msg("system", Str(TaskInstruction(task_type)))>> \o msgs,
              inserted |-> TRUE]
        ELSE IF msgs[i].content.kind # "str"
        THEN [raised |-> "AttributeError", caller |-> msgs, out |-> msgs, inserted |-> FALSE]
        ELSE [raised |-> "none", caller |-> mut, out |-> mut, inserted |-> FALSE]

(* lines 259-272 and 311-340: the provider prefix, then the ollama/ prefix *)
(* for a name that holds qwen, mixtral or llama or when OLLAMA_PROVIDER is *)
(* 'ollama'; the result is params["model"]                                 *)
ParamsModel(model_name, keys, ollama) ==
    LET provider == IF "OPENAI" \in keys THEN <<"o","p","e","n","a","i">>
                    ELSE IF "ANTHROPIC" \in keys THEN <<"a","n","t","h","r","o","p","i","c">>
                    ELSE IF "GROQ" \in keys THEN <<"g","r","o","q">>
                    ELSE IF "OPENROUTER" \in keys THEN <<"o","p","e","n","r","o","u","t","e","r">>
                    ELSE <<>>
        slash(n) == {k \in 1..Len(n) : n[k] = "/"}
        named == IF slash(model_name) = {} /\ provider # <<>>
                 THEN provider \o <<"/">> \o model_name ELSE model_name
        first == CHOOSE k \in slash(named) : \A j \in slash(named) : k <= j
        bare  == IF slash(named) = {} THEN named ELSE SubSeq(named, first + 1, Len(named))
    IN  IF ollama \/ \E id \in {<<"q","w","e","n">>, <<"m","i","x","t","r","a","l">>, <<"l","l","a","m","a">>} : Contains(id, Lower(named))
        THEN [model |-> <<"o","l","l","a","m","a">> \o <<"/">> \o bare, provider |-> "ollama"]
        ELSE [model |-> named, provider |-> "None"]

(* lines 377, 446 *)
IsAnthropic(effective_model_name) ==
    \/ Contains(<<"c","l","a","u","d","e">>, Lower(effective_model_name))
    \/ Contains(<<"a","n","t","h","r","o","p","i","c">>, Lower(effective_model_name))

(* the wrapped content of lines 390-392 and 430-432 *)
Wrap(content) == Blocks(<<[type |-> "text", text |-> content, cache_control |-> TRUE]>>)

(* lines 385-399: the first message when it is a system prompt *)
MarkSystem(msg) ==
    LET bs   == msg.content.blocks
        open == {j \in 1..Len(bs) : bs[j].type = "text" /\ ~bs[j].cache_control}
        j0   == CHOOSE j \in open : \A k \in open : j <= k
    IN  IF msg.content.kind = "str" THEN [msg EXCEPT !.content = Wrap(msg.content)]
        ELSE IF open = {} THEN msg
        ELSE [msg EXCEPT !.content.blocks[j0].cache_control = TRUE]

(* apply_cache_control, lines 422-437 *)
ApplyCacheControl_Rewrap(msg) == [msg EXCEPT !.content = Wrap(msg.content)]

ApplyCacheControl(msg) ==
    LET bs == msg.content.blocks
    IN  IF msg.content.kind = "str" THEN [msg EXCEPT !.content = Wrap(msg.content)]
        ELSE [msg EXCEPT !.content.blocks =
                 [j \in 1..Len(bs) |->
                     IF bs[j].type = "text" THEN [bs[j] EXCEPT !.cache_control = TRUE]
                     ELSE bs[j]]]

(* lines 375-442: the system prompt, the last two user messages and the    *)
(* last assistant message                                                  *)
CacheMark(msgs) ==
    LET users == Indices(msgs, "user")
        u1 == Last(users)
        u2 == Last(users \ {u1})
        a1 == Last(Indices(msgs, "assistant"))
    IN  [i \in 1..Len(msgs) |->
            IF i = 1 /\ msgs[i].role = "system" THEN MarkSystem(msgs[i])
            ELSE IF i \in {u1, u2, a1} THEN ApplyCacheControl(msgs[i])
            ELSE msgs[i]]

NoParams == [raised |-> "none", model |-> <<>>, messages |-> <<>>, temperature |-> 0,
             provider |-> "None", reasoning_effort |-> "None"]

(* prepare_params, lines 220-454: caller is the caller's list afterwards   *)
PrepareParamsResult(msgs, a, cfg, ollama) ==
    LET switch == a.task_type # "None" /\ a.model_name = cfg.MODEL_TO_USE
        best   == IF switch THEN SelectBestModelForTask(a.task_type, msgs, cfg.MODEL_TO_USE)
                  ELSE [raised |-> "none", model |-> a.model_name]
        enh    == IF a.task_type # "auto" THEN EnhancePromptForTask(msgs, a.task_type)
                  ELSE [raised |-> "none", caller |-> msgs, out |-> msgs, inserted |-> FALSE]
        pm     == ParamsModel(best.model, cfg.keys, ollama)
        marked == IF IsAnthropic(pm.model) THEN CacheMark(enh.out) ELSE enh.out
        think  == IsAnthropic(pm.model) /\ a.enable_thinking = "True"
    IN  IF best.raised # "none"
        THEN [caller |-> msgs, params |-> [NoParams EXCEPT !.raised = best.raised]]
        ELSE IF enh.raised # "none"
        THEN [caller |-> msgs, params |-> [NoParams EXCEPT !.raised = enh.raised]]
        ELSE [caller |-> IF enh.inserted THEN Tail(marked) ELSE marked,
              params |-> [raised |-> "none",
                          model |-> pm.model,
                          messages |-> marked,
                          temperature |-> IF think THEN 100
                                          ELSE OptimizeTemperature(a.task_type, a.temperature),
                          provider |-> pm.provider,
                          reasoning_effort |-> IF think THEN "low" ELSE "None"]]

(* the model names a caller asks for *)
ModelNames ==
    {<<"g","p","t","-","4","o">>,
     <<"a","n","t","h","r","o","p","i","c","/","c","l","a","u","d","e","-","3","-","7">>,
     <<"C","l","a","u","d","e","-","3">>,
     <<"q","w","e","n","3",":","8","b">>}

(* the message lists a caller starts with *)
CallerLists ==
    {<<>>,
     <<Msg("system", Str(<<"B","e"," ","b","r","i","e","f">>)), Msg("user", Str(<<"h","i">>)),
       Msg("assistant", Str(<<"o","k">>)), Msg("user", Str(<<"w","h","y">>))>>,
     <<Msg("system", Str(<<"B","e"," ","b","r","i","e","f",".">>)), Msg("user", Str(<<"D","e","b","u","g"," ","t","h","i","s">>))>>,
     <<Msg("system", Blocks(<<TextBlock(<<"B","e"," ","b","r","i","e","f">>, FALSE), TextBlock(<<"B","e"," ","k","i","n","d">>, FALSE)>>)),
       Msg("user", Blocks(<<TextBlock(<<"h","i">>, FALSE),
                            [type |-> "image_url", text |-> Str(<<>>), cache_control |-> FALSE]>>))>>,
     <<Msg("user", Str(<<"h","i">>)), Msg("user", Str(<<"a"," ","s","t","o","r","y">>)), Msg("user", Str(<<"w","h","y">>)),
       Msg("assistant", Str(<<"o","k">>))>>}

MaxPrepareCalls == 2

PrepIdle ==
    /\ config = [MODEL_TO_USE |-> <<>>, keys |-> {}]
    /\ messages = <<>>
    /\ before = <<>>
    /\ args = [task_type |-> "None", model_name |-> <<>>, temperature |-> 0,
              enable_thinking |-> "None"]
    /\ params = NoParams
    /\ nprepare = 0

(* a process with its configuration, and a caller with its message list,   *)
(* its model and its sampling settings, which it keeps from call to call   *)
PrepStart ==
    /\ config \in [MODEL_TO_USE : {<<"g","p","t","-","4","o">>,
                                   <<"a","n","t","h","r","o","p","i","c","/","c","l","a","u","d","e","-","3","-","7">>},
                   keys : {{}, {"ANTHROPIC", "GROQ"}}]
    /\ messages \in CallerLists
    /\ before = messages
    /\ args \in [task_type : {"None"},
                 model_name : ModelNames,
                 temperature : {0, 30},
                 enable_thinking : {"True", "False", "None"}]
    /\ params = NoParams
    /\ nprepare = 0

(* one call of prepare_params on the caller's list, with a task type *)
PrepareParams(task_type) ==
    /\ nprepare < MaxPrepareCalls
    /\ args' = [args EXCEPT !.task_type = task_type]
    /\ \E r \in {PrepareParamsResult(messages, args', config, ollama_provider)} :
           /\ messages' = r.caller
           /\ params' = r.params
    /\ before' = messages
    /\ nprepare' = nprepare + 1
    /\ UNCHANGED <<config, engineVars, classifyVars, raceVars, selectVars, embedVars, decideVars>>

PrepareNext ==
    \E task_type \in {"auto", "coding", "reasoning", "creative", "chat", "general", "None"} :
        PrepareParams(task_type)

(***************************************************************************)
(* The decision of classify_task_with_embeddings for every combination of  *)
(* similarities, in hundredths, around its thresholds: 0.50, 0.55, 0.60    *)
(* and 0.65 of confidence are the similarities 0, 10, 20 and 30, a gap of  *)
(* 0.10 of confidence is 20 of similarity.                                 *)
(***************************************************************************)
SimValues == {Num(-100), Num(0), Num(9), Num(10), Num(20), Num(29), Num(30), Num(50), NaN}

DecideIdle ==
    /\ similarities = <<>>
    /\ decided = NoResult

DecideStart ==
    /\ similarities \in {[i \in 1..Len(TaskOrder) |->
                             [task |-> TaskOrder[i], raised |-> FALSE, sim |-> f[i]]] :
                          f \in [1..Len(TaskOrder) -> SimValues]}
    /\ decided = NoResult

(* lines 223-259 *)
DecideCall ==
    /\ decided = NoResult
    /\ decided' = Decide(SortedReverse(similarities))
    /\ UNCHANGED <<similarities, engineVars, classifyVars, raceVars, selectVars,
                   prepVars, embedVars>>

(***************************************************************************)
(* get_embedding called on its own, with save_embeddings_cache and         *)
(* load_embeddings_cache, while the embedding backends come and go.        *)
(***************************************************************************)
MaxEmbedOps == 4

EmbedTexts == {<<>>, <<10, 11>>, <<7>>}

NoEmbed == [op |-> "none", text |-> <<>>, vec |-> ZeroVec(0), source |-> "none",
            prior |-> EmptyMap, known |-> <<>>, local |-> "down", key |-> FALSE,
            hosted |-> FALSE]

NoFile == [exists |-> FALSE, data |-> EmptyMap]

EmbedIdle ==
    /\ snapshot = NoFile
    /\ last_embed = NoEmbed
    /\ served = EmptyMap
    /\ nembed = 0

(* get_embedding(text), lines 112-176 *)
GetEmbeddingCall(text) ==
    /\ nembed < MaxEmbedOps
    /\ nembed' = nembed + 1
    /\ LET e == GetEmbedding(EMBEDDING_CACHE, text, local_backend, openai_key, hosted_up)
       IN  /\ EMBEDDING_CACHE' = CacheAfter(EMBEDDING_CACHE, text, e)
           /\ last_embed' =
                 [op |-> "embed", text |-> text, vec |-> e.vec, source |-> e.source,
                  prior |-> EMBEDDING_CACHE,
                  known |-> IF text \in DOMAIN served THEN <<served[text]>> ELSE <<>>,
                  local |-> local_backend, key |-> openai_key, hosted |-> hosted_up]
           /\ served' = IF e.source \in {"local", "hosted", "bag"} /\ text \notin DOMAIN served
                        THEN [t \in DOMAIN served \cup {text} |->
                                 IF t = text THEN e.vec ELSE served[t]]
                        ELSE served
    /\ UNCHANGED <<TASK_EMBEDDINGS, local_backend, openai_key, hosted_up, changes, cpc,
                   init_task, init_acc, prompt, prompt_embedding, result, nclassify>>
    /\ UNCHANGED <<snapshot, engineVars, raceVars, selectVars, prepVars, decideVars>>

(* save_embeddings_cache, lines 325-337: json.dump of the whole mapping;   *)
(* when the file cannot be opened the exception is logged and the file is  *)
(* as it was.  Keys are strings and values lists of floats, which JSON     *)
(* writes and reads back unchanged.                                        *)
SaveEmbeddingsCache(ok) ==
    /\ nembed < MaxEmbedOps
    /\ nembed' = nembed + 1
    /\ snapshot' = IF ok THEN [exists |-> TRUE, data |-> EMBEDDING_CACHE] ELSE snapshot
    /\ last_embed' = [last_embed EXCEPT !.op = "save"]
    /\ UNCHANGED <<served, classifyVars, engineVars, raceVars, selectVars, prepVars,
                   decideVars>>

(* load_embeddings_cache, lines 339-354: when the file exists, the global  *)
(* EMBEDDING_CACHE is rebound to what json.load returns; when reading      *)
(* fails the exception is logged and the cache is as it was                *)
LoadEmbeddingsCache(ok) ==
    /\ nembed < MaxEmbedOps
    /\ nembed' = nembed + 1
    /\ EMBEDDING_CACHE' = IF snapshot.exists /\ ok THEN snapshot.data ELSE EMBEDDING_CACHE
    /\ last_embed' = [last_embed EXCEPT !.op = "load"]
    /\ UNCHANGED <<TASK_EMBEDDINGS, local_backend, openai_key, hosted_up, changes, cpc,
                   init_task, init_acc, prompt, prompt_embedding, result, nclassify>>
    /\ UNCHANGED <<snapshot, served, engineVars, raceVars, selectVars, prepVars,
                   decideVars>>

EmbedNext ==
    \/ \E text \in EmbedTexts : GetEmbeddingCall(text)
    \/ \E ok \in BOOLEAN : SaveEmbeddingsCache(ok)
    \/ \E ok \in BOOLEAN : LoadEmbeddingsCache(ok)
    \/ BackendChange

(* the classifier module is loaded with its prototypes still to be built;  *)
(* only get_embedding and the cache file are exercised                     *)
EmbedInit ==
    /\ ClassifyStart
    /\ EngineIdle /\ RaceIdle /\ SelectIdle /\ PrepIdle /\ EmbedIdle /\ DecideIdle

EmbedSpec == EmbedInit /\ [][EmbedNext]_vars

DecideInit ==
    /\ DecideStart
    /\ EngineIdle /\ ClassifyIdle /\ RaceIdle /\ SelectIdle /\ PrepIdle /\ EmbedIdle

DecideSpec == DecideInit /\ [][DecideCall]_vars

PrepareInit == EngineInit /\ ClassifyIdle /\ RaceIdle /\ SelectIdle /\ PrepStart /\ EmbedIdle
    /\ DecideIdle

PrepareSpec == PrepareInit /\ [][PrepareNext]_vars

SelectNext ==
    \/ \E p \in SelectPrompts : GetModelForTask(p)
    \/ \E o \in {"ok", "ImportError", "OSError"} : ImportRecorder(o)
    \/ \E c \in Classifications : ClassifyAndSelect(c)
    \/ \E file_ok \in BOOLEAN, in_loop \in BOOLEAN : LogModelSelection(file_ok, in_loop)
    \/ \E inserted \in BOOLEAN : DbCompletes(inserted)

SelectInit == EngineIdle /\ ClassifyIdle /\ RaceIdle /\ SelectIdle /\ PrepIdle /\ EmbedIdle
    /\ DecideIdle

SelectSpec == SelectInit /\ [][SelectNext]_vars

ClassifyInit == ClassifyStart /\ EngineIdle /\ RaceIdle /\ SelectIdle /\ PrepIdle /\ EmbedIdle
    /\ DecideIdle

ClassifySpec == ClassifyInit /\ [][ClassifyNext]_vars

ConcurrentInit == ClassifyStart /\ EngineIdle /\ RaceIdle /\ SelectIdle /\ PrepIdle /\ EmbedIdle
    /\ DecideIdle

ConcurrentNext ==
    \/ InitEmbed
    \/ BackendChange
    \/ \E t \in Callers, p \in Prompts : CallerStart(t, p)
    \/ \E t \in Callers : CallerInitEmbed(t)
    \/ \E t \in Callers : CallerEmbed(t)

ConcurrentSpec == ConcurrentInit /\ [][ConcurrentNext]_vars


EngineStep ==
    \/ StartAttempt
    \/ \E o \in TransportOutcomes : TransportReturns(o)
    \/ Wake
    \/ Exhausted

Init == EngineInit /\ ClassifyIdle /\ RaceIdle /\ SelectIdle /\ PrepIdle /\ EmbedIdle
    /\ DecideIdle

Next ==
    \/ StartAttempt
    \/ \E o \in TransportOutcomes : TransportReturns(o)
    \/ Wake
    \/ Exhausted
    \/ Cancel

Spec == Init /\ [][Next]_vars

(* the transport answers every call and every sleep ends; the caller is    *)
(* never obliged to cancel                                                 *)
FairSpec == Spec /\ WF_vars(EngineStep)


(***************************************************************************)
(* Properties of make_llm_api_call                                         *)
(***************************************************************************)
RECURSIVE SumSeq(_)
SumSeq(s) == IF s = <<>> THEN 0 ELSE Head(s) + SumSeq(Tail(s))

Retryable == {"RateLimitError", "OpenAIError", "JSONDecodeError"}

Transient == {"OpenAIError", "JSONDecodeError"}

NonRetryable == {"BadRequestError", "Exception"}

Finished == pc = "done" /\ ~cancelled

(* C1: whatever the transport answers, one invocation calls               *)
(* litellm.acompletion at most MAX_RETRIES times.                          *)
C1_AtMostMaxRetriesCalls ==
    /\ calls <= MAX_RETRIES
    /\ Len(observed) <= calls

C1_Witness ==
    /\ pc = "done"
    /\ calls = MAX_RETRIES
    /\ \E i \in 1..Len(observed) : observed[i] = "ProviderMissing"
    /\ \E i \in 1..Len(observed) : observed[i] = "RateLimitError"

C4_CorrectionAtMostOnce == Len(params_model) <= 2

(* C5: an LLMRetryError carries the error of the last failed attempt.      *)
C5_CarriesLastObservedError ==
    outcome = "LLMRetryError"
    => (/\ Len(observed) > 0
        /\ carried = Err(observed[Len(observed)], Len(observed)))

C7_CancelStopsInvocation ==
    [][cancelled' => (/\ pc' = "done"
                      /\ outcome' = "cancelled"
                      /\ calls' = calls
                      /\ sleeps' = sleeps
                      /\ observed' = observed)]_vars

C7_Witness ==
    /\ cancelled
    /\ outcome = "cancelled"
    /\ Len(observed) = calls
    /\ Len(sleeps) = 2

CountOf(S) == Cardinality({i \in 1..Len(observed) : observed[i] \in S})

(* C22: after a provider-missing error the model is rewritten with the     *)
(* prefix of the configured provider and the next attempt is made at once: *)
(* no sleep is taken for it, and it does not use up one of the MAX_RETRIES *)
(* attempts: with at most one correction, retry exhaustion comes only      *)
(* after MAX_RETRIES retryable failures.                                   *)
C22_CorrectionRetriesForFree ==
    /\ Len(params_model) = 1 + CountOf({"ProviderMissing"})
    /\ \A i \in 1..(Len(params_model) - 1) :
           params_model[i] = ProviderPrefix(ollama_provider)
    /\ Len(sleeps) = CountOf(Retryable)
    /\ (Finished /\ outcome = "LLMRetryError"
            /\ CountOf({"ProviderMissing"}) <= 1)
       => CountOf(Retryable) = MAX_RETRIES

(* C23: every backoff sleep is followed by another attempt: an invocation  *)
(* that ends in retry exhaustion after MAX_RETRIES retryable failures has  *)
(* slept exactly MAX_RETRIES - 1 times.                                    *)
C23_NoSleepAfterLastAttempt ==
    /\ (pc = "sleeping" => LoopHasNext(attempt + 1))
    /\ (Finished /\ outcome = "LLMRetryError"
            /\ CountOf(Retryable) = MAX_RETRIES)
       => Len(sleeps) = MAX_RETRIES - 1

(***************************************************************************)
(* Properties of classify_task_with_embeddings                             *)
(***************************************************************************)
ClassifyEnded == cpc = "idle" /\ result.status # "none"

InUnitInterval(c) == ~c.nan /\ 0 <= c.v /\ c.v <= Pct(100)

(* C9: every call of classify_task_with_embeddings returns, and returns a  *)
(* category of the four task types with a confidence in [0,1].             *)
C9_ClassifyReturnsValidPair ==
    ClassifyEnded
    => (/\ result.status = "returned"
        /\ result.category \in TaskTypes
        /\ InUnitInterval(result.confidence))

(* C10: when the embedding of the prompt is the zero vector, a call that   *)
(* returns returns the category general.                                   *)
C10_ZeroVectorGivesGeneral ==
    (/\ ClassifyEnded
     /\ result.status = "returned"
     /\ prompt_embedding.dim > 0
     /\ IsZeroVec(prompt_embedding))
    => result.category = "general"

(* C24: every returned category other than general comes with a returned   *)
(* confidence of at least 0.55: a confidence below 0.55 is never returned  *)
(* with another category than general.                                     *)
C24_NonGeneralAtLeastFloor ==
    (/\ ClassifyEnded
     /\ result.status = "returned"
     /\ result.category # "general")
    => (/\ ~result.confidence.nan
        /\ result.confidence.v >= Pct(55))

(* among similarities that are all numbers, the top entry has the greatest *)
(* similarity, the earlier entry of the dictionary order on a tie; the     *)
(* runner-up is the top of the others                                      *)
AllNumbers(sims) == \A i \in 1..Len(sims) : ~sims[i].raised /\ ~sims[i].sim.nan

Above(sims, i, j) ==
    \/ sims[i].sim.v > sims[j].sim.v
    \/ (sims[i].sim.v = sims[j].sim.v /\ i < j)

TopOf(sims, among) ==
    CHOOSE i \in among : \A j \in among \ {i} : Above(sims, i, j)

(* C25: with confidence = (similarity + 1) / 2: if the confidence of the   *)
(* top category is below the threshold of that category, the runner-up is  *)
(* general and the top confidence exceeds the runner-up's by less than     *)
(* 0.10, the call returns general with the confidence of the runner-up;    *)
(* in every other case it returns the confidence of the top category, and  *)
(* the top category unless that confidence is below 0.55.                  *)
C25_AmbiguityRule ==
    (decided # NoResult /\ AllNumbers(similarities))
    => LET sims == similarities
           all  == 1..Len(sims)
           top  == TopOf(sims, all)
           snd  == TopOf(sims, all \ {top})
           ct   == sims[top].sim.v + 100
           cs   == sims[snd].sim.v + 100
       IN  IF /\ ct < confidence_thresholds(sims[top].task)
              /\ sims[snd].task = "general"
              /\ ct - cs < Pct(10)
           THEN decided = Returned("general", Num(cs))
           ELSE /\ decided.confidence = Num(ct)
                /\ decided.category =
                      IF ct < Pct(55) THEN "general" ELSE sims[top].task

(* the ambiguity rule has acted: a top category other than general was     *)
(* replaced *)
C25_Witness ==
    /\ decided # NoResult
    /\ AllNumbers(similarities)
    /\ LET sims == similarities
           top  == TopOf(sims, 1..Len(sims))
           snd  == TopOf(sims, (1..Len(sims)) \ {top})
       IN  /\ sims[top].task # "general"
           /\ sims[snd].task = "general"
           /\ sims[top].sim.v + 100 < confidence_thresholds(sims[top].task)
           /\ sims[top].sim.v - sims[snd].sim.v < Pct(10)
           /\ sims[top].sim.v > sims[snd].sim.v
           /\ sims[snd].sim.v + 100 >= Pct(55)
           /\ decided.category = "general"

(* C30: whenever no initialisation is running, TASK_EMBEDDINGS is empty or *)
(* holds a prototype for each of the four task types, also after an        *)
(* initialisation that failed partway through.                             *)
C30_PrototypesAllOrNothing ==
    cpc = "idle" => DOMAIN TASK_EMBEDDINGS \in {{}, TaskTypes}

(***************************************************************************)
(* Properties of get_embedding and the embedding cache                     *)
(***************************************************************************)
Embedded == last_embed.source # "none"

(* C21: whatever the backends do, get_embedding returns a vector, of the   *)
(* length of the backend that answered, and the all-zero vector of 100     *)
(* coordinates when no backend produced a result.                          *)
C21_AlwaysReturnsAVector ==
    Embedded
    => /\ last_embed.vec.dim \in {NativeDim, HostedDim, FallbackDim}
       /\ last_embed.source = "failure" => last_embed.vec = ZeroVec(FallbackDim)

(* C28: a text that is not in the cache gets the vector of the first       *)
(* backend that produces one, in the order local, hosted (when a key is    *)
(* configured), bag of words: when neither the local nor the hosted        *)
(* backend produced a vector, the result is the bag-of-words vector.       *)
C28_FirstBackendElseBagOfWords ==
    (Embedded /\ last_embed.source # "cache")
    => last_embed.vec =
          IF last_embed.local = "ok" THEN BackendVector(NativeDim, last_embed.text)
          ELSE IF last_embed.key /\ last_embed.hosted
               THEN BackendVector(HostedDim, last_embed.text)
          ELSE BagOfWords(last_embed.text)

(* C29: a call that returns a vector produced by a backend has put exactly *)
(* that entry into the cache and changed no other entry; a call that       *)
(* returns the zero vector of a failure has left the cache as it was; and  *)
(* a text for which a backend once produced a vector gets that vector from *)
(* the cache on every later call.                                          *)
C29_MemoizedOnceAndKept ==
    /\ (last_embed.op = "embed" /\ last_embed.source \in {"local", "hosted", "bag"})
          => EMBEDDING_CACHE =
                [t \in DOMAIN last_embed.prior \cup {last_embed.text} |->
                    IF t = last_embed.text THEN last_embed.vec ELSE last_embed.prior[t]]
    /\ (last_embed.op = "embed" /\ last_embed.source \in {"failure", "cache"})
          => EMBEDDING_CACHE = last_embed.prior
    /\ (Embedded /\ last_embed.known # <<>>)
          => /\ last_embed.source = "cache"
             /\ last_embed.vec = last_embed.known[1]

(***************************************************************************)
(* Properties of concurrent callers                                        *)
(***************************************************************************)
(* C11: when callers arrive while TASK_EMBEDDINGS is empty, every          *)
(* prototype is built at most once and no caller computes similarities     *)
(* against fewer than four prototypes.  builds counts the assignments of   *)
(* a prototype by callers; racing marks a caller that read TASK_EMBEDDINGS *)
(* while another caller was inside initialize_task_embeddings.             *)
C11_InitOnceNoPartialRead ==
    /\ \A k \in TaskTypes : builds[k] <= 1
    /\ \A t \in Callers :
          callers[t].racing => callers[t].seen = Len(TaskOrder)

(***************************************************************************)
(* Properties of get_model_for_task and the decision recorder              *)
(***************************************************************************)
Classified == sel.task_type # "none"

HasCodingTerm == \E term \in CodingTerms : Contains(term, Lower(sel.prompt))

HasReasoningTerm == \E term \in ReasoningTerms : Contains(term, Lower(sel.prompt))

Snippets == {sel.log_record[i].prompt_preview : i \in 1..Len(sel.log_record)}
               \cup {sel.db_row[i].prompt_snippet : i \in 1..Len(sel.db_row)}

Decisions ==
    {<<sel.log_record[i].selected_model, sel.log_record[i].override_reason>> :
        i \in 1..Len(sel.log_record)}
      \cup {<<sel.db_row[i].selected_model, sel.db_row[i].override_reason>> :
              i \in 1..Len(sel.db_row)}

(* C12: a prompt that contains a coding keyword, in any case, and is       *)
(* classified as something other than coding gets the coding model with    *)
(* reason coding_keywords_detected, in the call and in every record it     *)
(* writes, whatever the confidence, the length and the reasoning terms.    *)
C12_CodingKeywordsOverride ==
    (Classified /\ sel.task_type # "coding" /\ HasCodingTerm)
       => /\ sel.model = TASK_MODELS["coding"]
          /\ sel.override_reason = "coding_keywords_detected"
          /\ Decisions \subseteq {<<TASK_MODELS["coding"], "coding_keywords_detected">>}

C12_Witness ==
    /\ sel.outcome = "returned"
    /\ sel.task_type = "creative"
    /\ sel.confidence = NaN
    /\ HasCodingTerm /\ HasReasoningTerm
    /\ ~Contains(<<"a","p","i">>, sel.prompt)
    /\ WordCount(sel.prompt) > LongPromptWords
    /\ sel.model = TASK_MODELS["coding"]
    /\ sel.db_row # <<>>

(* C13: a prompt of more than 100 words classified as something other than *)
(* reasoning gets the reasoning model with reason long_complex_prompt,     *)
(* unless the coding-keyword rule applies to it, which then decides.       *)
C13_LongPromptOverride ==
    (Classified /\ sel.task_type # "reasoning" /\ WordCount(sel.prompt) > LongPromptWords)
       => IF sel.task_type # "coding" /\ HasCodingTerm
          THEN /\ sel.model = TASK_MODELS["coding"]
               /\ sel.override_reason = "coding_keywords_detected"
          ELSE /\ sel.model = TASK_MODELS["reasoning"]
               /\ sel.override_reason = "long_complex_prompt"
               /\ Decisions \subseteq {<<TASK_MODELS["reasoning"], "long_complex_prompt">>}

C13_Witness ==
    /\ sel.outcome = "returned"
    /\ sel.task_type = "coding"
    /\ HasCodingTerm
    /\ WordCount(sel.prompt) = LongPromptWords + 1
    /\ sel.override_reason = "long_complex_prompt"
    /\ sel.log_record # <<>>

(* C26: the override rules apply in the order coding keywords, long        *)
(* prompt, reasoning terms, the first match deciding: the reason is        *)
(* reasoning_terms_detected, with the reasoning model, exactly when the    *)
(* reasoning-terms rule matches and neither of the other two does; when no *)
(* rule matches, the model is the one mapped to the classified category    *)
(* and there is no override reason.                                        *)
C26_ReasoningRuleLastThenBase ==
    Classified
    => LET coding    == sel.task_type # "coding" /\ HasCodingTerm
           long      == WordCount(sel.prompt) > LongPromptWords
                           /\ sel.task_type # "reasoning"
           reasoning == sel.task_type # "reasoning" /\ HasReasoningTerm
       IN  /\ (sel.override_reason = "reasoning_terms_detected")
                 <=> (reasoning /\ ~coding /\ ~long)
           /\ (sel.override_reason = "reasoning_terms_detected")
                 => sel.model = TASK_MODELS["reasoning"]
           /\ (~coding /\ ~long /\ ~reasoning)
                 => (/\ sel.model = TASK_MODELS[sel.task_type]
                     /\ sel.override_reason = "None")

C26_Witness ==
    /\ sel.outcome = "returned"
    /\ sel.task_type = "general"
    /\ HasReasoningTerm /\ ~HasCodingTerm
    /\ WordCount(sel.prompt) = LongPromptWords
    /\ sel.model = TASK_MODELS["reasoning"]
    /\ sel.override_reason = "reasoning_terms_detected"

(* C18: no failure of the decision sink (loading the recorder, writing the *)
(* log record, the database) makes get_model_for_task raise.               *)
C18_SinkFailureNeverPropagates == sel.raised_by # "recorder"

(* C19: get_model_for_task is never waiting for the persistence of the     *)
(* decision record: it returns whether or not the database answers.        *)
C19_NeverWaitsForPersistence == sel.pc # "db"

(* C20: the prompt snippet of the decision record, in the file log and in  *)
(* the database row, has at most 50 characters.                            *)
C20_SnippetAtMost50 == \A sn \in Snippets : Len(sn) <= SnippetLen

(* C20 as amended: the snippet is the prompt when that has at most 50      *)
(* characters, else its first 50 characters followed by three dots: at     *)
(* most 53 characters, none of them from beyond the prompt's 50th.         *)
C20_SnippetFirst50PlusDots ==
    \A sn \in Snippets :
       /\ Len(sn) <= SnippetLen + 3
       /\ Len(sel.prompt) <= SnippetLen => sn = sel.prompt
       /\ Len(sel.prompt) > SnippetLen =>
             /\ Len(sn) = SnippetLen + 3
             /\ \A i \in 1..Len(sn) :
                   sn[i] = IF i <= SnippetLen THEN sel.prompt[i] ELSE "."

C20_Witness ==
    /\ sel.outcome = "returned"
    /\ Len(sel.prompt) = SnippetLen + 1
    /\ Cardinality(Snippets) = 1
    /\ sel.log_record # <<>> /\ sel.db_row # <<>>
    /\ \A sn \in Snippets : Len(sn) = SnippetLen + 3

(***************************************************************************)
(* Properties of prepare_params                                            *)
(***************************************************************************)
Prepared == nprepare > 0 /\ params.raised = "none"

(* roles and texts of a message list, without hints and wrapping *)
PlainContent(c) ==
    IF c.kind = "str" THEN <<c.text>>
    ELSE [j \in 1..Len(c.blocks) |->
             IF c.blocks[j].type = "text" THEN c.blocks[j].text.text ELSE <<>>]

Plain(msgs) ==
    [i \in 1..Len(msgs) |-> [role |-> msgs[i].role, text |-> PlainContent(msgs[i].content)]]

Hinted(msgs) ==
    {<<i, j>> \in (1..Len(msgs)) \X (1..2) :
        /\ msgs[i].content.kind = "list"
        /\ j <= Len(msgs[i].content.blocks)
        /\ msgs[i].content.blocks[j].cache_control}

(* C14: a non-zero temperature of the caller is the temperature of the     *)
(* returned parameters, for every task type, model and thinking flag.      *)
C14_NonZeroTemperatureKept ==
    (Prepared /\ args.temperature # 0) => params.temperature = args.temperature

(* C14 as amended: a non-zero temperature of the caller is the temperature *)
(* of the returned parameters, except that it is 1.0 when thinking is      *)
(* enabled and the effective model is an Anthropic/Claude model.           *)
C14_NonZeroKeptUnlessThinking ==
    (Prepared /\ args.temperature # 0)
       => params.temperature =
             IF args.enable_thinking = "True" /\ IsAnthropic(params.model)
             THEN 100 ELSE args.temperature

C14_Witness ==
    /\ Prepared
    /\ args.temperature = 30
    /\ args.task_type = "creative"
    /\ args.enable_thinking = "True"
    /\ ~IsAnthropic(params.model)
    /\ params.temperature = 30

(* C15: with the caller's temperature at 0, thinking not enabled and task  *)
(* type coding, reasoning, creative or chat, the returned temperature is   *)
(* 0.1, 0.2, 0.8 or 0.5.                                                   *)
C15_TableTemperature ==
    (Prepared /\ args.temperature = 0 /\ args.enable_thinking # "True")
       => /\ args.task_type = "coding" => params.temperature = 10
          /\ args.task_type = "reasoning" => params.temperature = 20
          /\ args.task_type = "creative" => params.temperature = 80
          /\ args.task_type = "chat" => params.temperature = 50

C15_Witness ==
    /\ Prepared
    /\ args.temperature = 0
    /\ args.task_type = "chat"
    /\ args.enable_thinking = "None"
    /\ IsAnthropic(params.model)
    /\ params.temperature = 50

(* C16: apart from cache hints and the wrapping that carries them, a call  *)
(* of prepare_params leaves the caller's list as it was: same length, same *)
(* roles, same texts, the system message included.                         *)
C16_CallerMessagesUnchanged == Plain(messages) = Plain(before)

(* C17: a call of prepare_params on a list marked by an earlier call       *)
(* leaves every block that carried a cache hint as it was: no second hint, *)
(* no wrapping of it into a new block.                                     *)
C17_HintedBlocksUntouched ==
    /\ Len(messages) = Len(before)
    /\ \A i \in 1..Len(before) :
          before[i].content.kind = "list"
             => /\ messages[i].content.kind = "list"
                /\ Len(messages[i].content.blocks) = Len(before[i].content.blocks)
                /\ \A j \in 1..Len(before[i].content.blocks) :
                      /\ messages[i].content.blocks[j].text.kind = "str"
                      /\ before[i].content.blocks[j].cache_control
                            => messages[i].content.blocks[j] = before[i].content.blocks[j]

C17_Witness ==
    /\ nprepare = 2
    /\ Prepared
    /\ IsAnthropic(params.model)
    /\ \E h \in Hinted(before) : before[h[1]].role = "user"
    /\ \E h \in Hinted(before) : before[h[1]].role = "system"
    /\ Hinted(before) \subseteq Hinted(messages)

(* the blocks the hints belong to: the first text block of the first       *)
(* system message, the text blocks of the last two user messages and of    *)
(* the last assistant message                                              *)
HintTargets(msgs) ==
    LET sys   == Indices(msgs, "system")
        users == Indices(msgs, "user")
        u1    == Last(users)
        u2    == Last(users \ {u1})
        a1    == Last(Indices(msgs, "assistant"))
        text(i) == {j \in 1..Len(msgs[i].content.blocks) :
                       msgs[i].content.blocks[j].type = "text"}
    IN  {<<i, j>> \in (1..Len(msgs)) \X (1..2) :
            /\ msgs[i].content.kind = "list"
            /\ j \in text(i)
            /\ \/ i \in {u1, u2, a1}
               \/ (i \in sys /\ (\A k \in sys : i <= k) /\ (\A k \in text(i) : j <= k))}

(* C27: after a call of prepare_params for a Claude/Anthropic model (here  *)
(* a call without task type, so that no instruction is added to the        *)
(* prompt) the list of the returned parameters has the length, order,      *)
(* roles and texts of the caller's list, and the blocks with a cache hint  *)
(* are exactly the first text block of the first system message and the    *)
(* text of the last two user messages and of the last assistant message.   *)
C27_HintsExactlyOnTargets ==
    (Prepared /\ IsAnthropic(params.model) /\ args.task_type = "None")
       => /\ Plain(params.messages) = Plain(before)
          /\ Hinted(params.messages) = HintTargets(params.messages)

====
